---------------------------- MODULE Spec2Model ----------------------------
(***************************************************************************)
(* Model of src/app.py: a Streamlit script over three Supabase tables      *)
(* (relatorios_bncc, escolas, construtores).  Every user interaction       *)
(* re-runs the script from top to bottom; one action of this module is one *)
(* such run with one button pressed (or none).                             *)
(*                                                                         *)
(* A run in which a SELECT raises changes nothing (st.cache_data does not  *)
(* memoize an exception, and the run ends before any handler), so it is a  *)
(* stuttering step and has no action of its own.                           *)
(***************************************************************************)
EXTENDS Integers, Sequences, FiniteSets

(***************************************************************************)
(* Bounds of the model.                                                    *)
(***************************************************************************)
MaxRecords == 2      \* rows of relatorios_bncc the session may reach
MaxEntries == 2      \* length of st.session_state.entries
MaxLookupWrites == 1 \* inserts and deletes on escolas and construtores in one session

(***************************************************************************)
(* Values.                                                                 *)
(***************************************************************************)
NULL     == "NULL"       \* None / SQL NULL in a text column
NoResult == -1           \* None / SQL NULL in the integer column resultado
NullData == <<>>         \* None / SQL NULL in the column data
NaT      == <<>>         \* pandas.NaT

\* the names of the model, in alphabetical order
NameOrder   == <<"A", "B", "E01", "E02", "E03", "E04", "E05", "E06", "E07", "E08", "E09",
                 "E10", "E11", "E12", "E13", "E14", "E15", "E16", "E17", "E18", "K">>
SchoolNames == {"A"}
ConNames    == {"K"}
Series      == {"1o ano"}
Disciplinas == {"Portugues"}
FormDates   == {<<2024, 1, 12>>, <<2024, 2, 29>>}
Results     == {0, 75}

DigitChar == <<"0", "1", "2", "3", "4", "5", "6", "7", "8", "9">>

RECURSIVE Pow10(_)
Pow10(k) == IF k = 0 THEN 1 ELSE 10 * Pow10(k - 1)

\* '%0<w>d' of n
Digits(n, w) == [i \in 1..w |-> DigitChar[((n \div Pow10(w - i)) % 10) + 1]]

IsoSwapped(d) == Digits(d[1], 4) \o <<"-">> \o Digits(d[3], 2) \o <<"-">> \o Digits(d[2], 2)

\* datetime.date.isoformat(): 'YYYY-MM-DD'
isoformat(d) == Digits(d[1], 4) \o <<"-">> \o Digits(d[2], 2) \o <<"-">> \o Digits(d[3], 2)

IsDigit(c) == \E i \in 1..10 : DigitChar[i] = c
DigitVal(c) == (CHOOSE i \in 1..10 : DigitChar[i] = c) - 1

RECURSIVE Number(_)
Number(s) == IF s = <<>> THEN 0
             ELSE 10 * Number(SubSeq(s, 1, Len(s) - 1)) + DigitVal(s[Len(s)])

DaysIn(y, m) ==
  IF m \in {4, 6, 9, 11} THEN 30
  ELSE IF m = 2 THEN (IF (y % 4 = 0 /\ y % 100 # 0) \/ y % 400 = 0 THEN 29 ELSE 28)
  ELSE 31

\* pd.to_datetime(value, errors="coerce") of one cell: the calendar day of an
\* ISO 'YYYY-MM-DD' string, NaT for None and for what is no date.
to_datetime(s) ==
  IF s = NullData \/ Len(s) # 10 THEN NaT
  ELSE IF ~(/\ s[5] = "-" /\ s[8] = "-"
            /\ \A i \in {1, 2, 3, 4, 6, 7, 9, 10} : IsDigit(s[i])) THEN NaT
  ELSE LET y == Number(SubSeq(s, 1, 4))
           m == Number(SubSeq(s, 6, 7))
           d == Number(SubSeq(s, 9, 10))
       IN IF y >= 1 /\ m \in 1..12 /\ d >= 1 /\ d <= DaysIn(y, m)
          THEN <<y, m, d>> ELSE NaT

\* d1 <= d2 on Timestamps; any comparison with NaT is False
DateLE(a, b) ==
  /\ a # NaT /\ b # NaT
  /\ \/ a[1] < b[1]
     \/ a[1] = b[1] /\ a[2] < b[2]
     \/ a[1] = b[1] /\ a[2] = b[2] /\ a[3] <= b[3]

DateLT(a, b) == DateLE(a, b) /\ a # b

Range(s) == {s[i] : i \in 1..Len(s)}

\* ORDER BY nome: the names of S in alphabetical order
SortNames(S) == SelectSeq(NameOrder, LAMBDA n : n \in S)

(***************************************************************************)
(* State.                                                                  *)
(***************************************************************************)
VARIABLES
  relatorios,    \* table relatorios_bncc, rows in insertion order
  escolas,       \* table escolas: the set of nome values
  construtores,  \* table construtores: the set of nome values
  cache,         \* st.cache_data: per memoized function <<>> or <<result>>
  entries,       \* st.session_state.entries
  df,            \* what carregar_dados() returned on line 42 of the last run
  outcome,       \* how the last run ended
  view,          \* what the last run drew below the form (lines 80-152)
  buttons,       \* the buttons the last run drew: <<key, index>>
  submitted,     \* history: the last press of submit_main, until the second
                 \* run after it
  entry_sent,    \* history: per element of entries, the inserts made of it
  lookup_writes  \* history: the inserts and deletes made on the lookup tables

vars == <<relatorios, escolas, construtores, cache, entries, df, outcome,
          view, buttons, submitted, entry_sent, lookup_writes>>

EmptyCache == [dados |-> <<>>, escolas |-> <<>>, construtores |-> <<>>]

NoSubmit == [pressed |-> FALSE]

NullRow == [id |-> 1, escola |-> NULL, serie |-> NULL, disciplina |-> NULL,
            data |-> NullData, resultado |-> NoResult, construtor |-> NULL]

\* the table relatorios_bncc as the session may find it
InitTables == {<<>>, <<NullRow>>}

(***************************************************************************)
(* The store adapter.                                                      *)
(***************************************************************************)
CharRank(c) == IF c = "-" THEN 0 ELSE DigitVal(c) + 1

RECURSIVE TextLE(_, _)
TextLE(a, b) ==
  IF a = <<>> THEN TRUE
  ELSE IF b = <<>> THEN FALSE
  ELSE IF CharRank(a[1]) # CharRank(b[1]) THEN CharRank(a[1]) < CharRank(b[1])
  ELSE TextLE(Tail(a), Tail(b))

\* ORDER BY data ASC of the store: NULLs last
DataLE(a, b) == b = NullData \/ (a # NullData /\ TextLE(a, b))

\* .select("*").order("data", desc=False).execute(): the rows in ascending
\* order of data; the order of rows with equal data is the store's choice.
SelectOrdered(rows) ==
  LET n == Len(rows)
      perms == {p \in [1..n -> 1..n] : \A i, j \in 1..n : i # j => p[i] # p[j]}
  IN {[i \in 1..n |-> rows[p[i]]] : p \in
        {q \in perms : \A i \in 1..n : i < n => DataLE(rows[q[i]].data, rows[q[i + 1]].data)}}

\* carregar_dados, on what the SELECT returned: the data column parsed. An
\* empty result makes a DataFrame with no rows and no columns, <<>> here.
carregar_dados(res) == [i \in 1..Len(res) |-> [res[i] EXCEPT !.data = to_datetime(@)]]

\* the memoized call of carregar_dados: [value, cache]
CachedDados(c, res) ==
  LET v == IF c.dados # <<>> THEN c.dados[1] ELSE carregar_dados(res)
  IN [value |-> v, cache |-> [c EXCEPT !.dados = <<v>>]]

\* the memoized call of load_list(table, "nome"): [value, cache]
load_list(c, table, names) ==
  LET v == IF c[table] # <<>> THEN c[table][1] ELSE SortNames(names)
  IN [value |-> v, cache |-> [c EXCEPT ![table] = <<v>>]]

\* st.selectbox(label, options): one of the options, None when there is none
Options(list) == IF list = <<>> THEN {NULL} ELSE Range(list)

\* the row one buffered entry is inserted as (lines 68-75); the store assigns id
NewRow(rows, w, row) ==
  [id |-> Len(rows) + 1, escola |-> w.escola, serie |-> w.serie,
   disciplina |-> w.disciplina, data |-> isoformat(w.data),
   resultado |-> row.resultado, construtor |-> row.construtor]

\* the loop of lines 67-75 from entry i on: insert failAt raises and ends the
\* loop and the run (failAt = 0: no insert raises)
RECURSIVE InsertLoop(_, _, _, _, _)
InsertLoop(rows, buf, i, w, failAt) ==
  IF i > Len(buf) THEN [rows |-> rows, raised |-> FALSE, done |-> Len(buf)]
  ELSE IF i = failAt THEN [rows |-> rows, raised |-> TRUE, done |-> i - 1]
  ELSE InsertLoop(Append(rows, NewRow(rows, w, buf[i])), buf, i + 1, w, failAt)

RemoveAt(s, i) == SubSeq(s, 1, i - 1) \o SubSeq(s, i + 1, Len(s))

(***************************************************************************)
(* Numbers of the dashboard.  A pandas float is NaN, inf or a rational     *)
(* kept in lowest terms; the dashboard never makes a negative infinity     *)
(* (every resultado, and so every mean, is >= 0).                          *)
(***************************************************************************)
NaN == [kind |-> "nan"]
Inf == [kind |-> "inf"]

RECURSIVE GCD(_, _)
GCD(a, b) == IF b = 0 THEN a ELSE GCD(b, a % b)

Abs(n) == IF n < 0 THEN -n ELSE n

Frac(n, d) ==
  LET g == GCD(Abs(n), d)
  IN [kind |-> "num", num |-> n \div g, den |-> d \div g]

IsNum(x) == x.kind = "num"

\* x >= c and x < c for an integer c; False for NaN, as in numpy
GEInt(x, c) == IsNum(x) /\ x.num >= c * x.den
LTInt(x, c) == IsNum(x) /\ x.num < c * x.den

\* x > y and x < y on numbers
GT(x, y) == x.num * y.den > y.num * x.den
LT(x, y) == x.num * y.den < y.num * x.den

\* the integer nearest to p/q (q > 0), a half going to the even neighbour
RoundHalfEven(p, q) ==
  LET lo == p \div q
      r2 == 2 * (p - lo * q)
  IN IF r2 < q THEN lo
     ELSE IF r2 > q THEN lo + 1
     ELSE IF lo % 2 = 0 THEN lo ELSE lo + 1

\* round(x, 2)
Round2(x) == IF IsNum(x) THEN Frac(RoundHalfEven(100 * x.num, x.den), 100) ELSE x

RECURSIVE SumNum(_)
SumNum(s) == IF s = <<>> THEN 0 ELSE s[1] + SumNum(Tail(s))

\* Series.mean() of an integer column: nulls skipped, NaN when nothing is left
MeanInt(vals) ==
  LET ok == SelectSeq(vals, LAMBDA v : v # NoResult)
  IN IF ok = <<>> THEN NaN ELSE Frac(SumNum(ok), Len(ok))

RECURSIVE SumFrac(_)
SumFrac(s) ==
  IF s = <<>> THEN Frac(0, 1)
  ELSE LET r == SumFrac(Tail(s))
       IN Frac(s[1].num * r.den + r.num * s[1].den, s[1].den * r.den)

\* Series.mean() of a float column: NaN skipped, an inf makes the mean inf
MeanFloat(vals) ==
  LET ok == SelectSeq(vals, LAMBDA v : v # NaN)
  IN IF ok = <<>> THEN NaN
     ELSE IF \E i \in 1..Len(ok) : ok[i] = Inf THEN Inf
     ELSE LET s == SumFrac(ok) IN Frac(s.num, s.den * Len(ok))

Column(rows, c) == [i \in 1..Len(rows) |-> rows[i][c]]

(***************************************************************************)
(* The aggregation of the dashboard (lines 86-126).                        *)
(***************************************************************************)
TopN == 10

Dates(rows) == {rows[i].data : i \in 1..Len(rows)} \ {NaT}

\* df["data"].min() and .max(): NaT skipped
MinDate(rows) == CHOOSE d \in Dates(rows) : \A e \in Dates(rows) : DateLE(d, e)
MaxDate(rows) == CHOOSE d \in Dates(rows) : \A e \in Dates(rows) : DateLE(e, d)

RECURSIVE SortDates(_)
SortDates(S) ==
  IF S = {} THEN <<>>
  ELSE LET d == CHOOSE x \in S : \A e \in S : DateLE(x, e)
       IN <<d>> \o SortDates(S \ {d})

InRangeExclusive(rows, start_d, end_d) ==
  SelectSeq(rows, LAMBDA r : DateLT(start_d, r.data) /\ DateLT(r.data, end_d))

\* line 92
InRange(rows, start_d, end_d) ==
  SelectSeq(rows, LAMBDA r : DateLE(start_d, r.data) /\ DateLE(r.data, end_d))

\* lines 93-94
BySchool(rows, f_esc) ==
  IF f_esc # "Todas" THEN SelectSeq(rows, LAMBDA r : r.escola = f_esc) ELSE rows

\* the keys of a groupby on escola, sorted; a null key is dropped
SchoolKeys(rows) == SelectSeq(NameOrder, LAMBDA n : \E i \in 1..Len(rows) : rows[i].escola = n)

\* the mean of one cell of groupby(["escola","data"])["resultado"].mean()
CellMean(rows, e, d) ==
  MeanInt(Column(SelectSeq(rows, LAMBDA r : r.escola = e /\ r.data = d), "resultado"))

SeriesRows(rows, e, ds) ==
  [k \in 1..Len(ds) |-> [escola |-> e, data |-> ds[k], media_result |-> CellMean(rows, e, ds[k])]]

\* the rows of ts of one school, in ascending order of data
SchoolSeries(rows, e) ==
  SeriesRows(rows, e, SortDates(Dates(SelectSeq(rows, LAMBDA r : r.escola = e))))

RECURSIVE ConcatSeries(_, _)
ConcatSeries(rows, ks) ==
  IF ks = <<>> THEN <<>> ELSE SchoolSeries(rows, ks[1]) \o ConcatSeries(rows, Tail(ks))

\* line 100: groupby(["escola","data"])["resultado"].mean().reset_index():
\* one row per school and date, sorted by school and then by date
ts_of(rows) == ConcatSeries(rows, SchoolKeys(rows))

\* GroupBy "first" and "last": the first and the last value that is not NaN
FirstValid(vals) ==
  LET ok == SelectSeq(vals, LAMBDA v : v # NaN) IN IF ok = <<>> THEN NaN ELSE ok[1]
LastValid(vals) ==
  LET ok == SelectSeq(vals, LAMBDA v : v # NaN) IN IF ok = <<>> THEN NaN ELSE ok[Len(ok)]

\* line 107, one row: ((ultimo - primeiro) / primeiro * 100).round(2) in
\* floating point: x/0 is inf for x > 0 and NaN for x = 0, and nothing raises
variacao(primeiro, ultimo) ==
  IF primeiro = NaN \/ ultimo = NaN THEN NaN
  ELSE IF primeiro.num = 0 THEN (IF ultimo.num = 0 THEN NaN ELSE Inf)
  ELSE Round2(Frac(100 * (ultimo.num * primeiro.den - primeiro.num * ultimo.den),
                   ultimo.den * primeiro.num))

\* lines 101-105 and 107, one school: first, last and size of its rows of ts
FlRow(e, primeiro, ultimo, count) ==
  [escola |-> e, primeiro |-> primeiro, ultimo |-> ultimo, count |-> count,
   variacao |-> variacao(primeiro, ultimo)]

FlGroup(e, g) == FlRow(e, FirstValid(g), LastValid(g), Len(g))

FlAll(t, ks) ==
  [k \in 1..Len(ks) |->
     FlGroup(ks[k], Column(SelectSeq(t, LAMBDA r : r.escola = ks[k]), "media_result"))]

fl_any(t) == SelectSeq(FlAll(t, SchoolKeys(t)), LAMBDA r : r.count >= 1)

\* lines 101-107: per school of ts the first and last mean and the number of
\* dates; the schools with count >= 2; their variacao_%
fl_of(t) == SelectSeq(FlAll(t, SchoolKeys(t)), LAMBDA r : r.count >= 2)

AvgRows(rows, ks) ==
  [k \in 1..Len(ks) |->
     [escola |-> ks[k],
      media_result |->
        MeanInt(Column(SelectSeq(rows, LAMBDA r : r.escola = ks[k]), "resultado"))]]

\* line 112: groupby('escola')['resultado'].mean().reset_index()
avg_s_of(rows) == AvgRows(rows, SchoolKeys(rows))

\* a before b in the order of nlargest (desc) or nsmallest
Before(a, b, desc) ==
  IF desc THEN GT(a.media_result, b.media_result) ELSE LT(a.media_result, b.media_result)

\* r put into the ordered s after the rows it does not come before
RECURSIVE InsertStable(_, _, _)
InsertStable(s, r, desc) ==
  IF s = <<>> THEN <<r>>
  ELSE IF Before(r, s[1], desc) THEN <<r>> \o s
  ELSE <<s[1]>> \o InsertStable(Tail(s), r, desc)

\* the stable sort (mergesort in pandas) on media_result
RECURSIVE SortStable(_, _)
SortStable(s, desc) ==
  IF s = <<>> THEN <<>>
  ELSE InsertStable(SortStable(SubSeq(s, 1, Len(s) - 1), desc), s[Len(s)], desc)

Head_n(s, n) == SubSeq(s, 1, IF Len(s) < n THEN Len(s) ELSE n)

Reverse(s) == [i \in 1..Len(s) |-> s[Len(s) + 1 - i]]

nlargest_last(s, n) == Head_n(SortStable(Reverse(s), TRUE), n)

\* DataFrame.nlargest(n, 'media_result'), keep='first': the n rows of the
\* descending order, rows of equal value in their order in s
nlargest(s, n) == Head_n(SortStable(s, TRUE), n)

\* DataFrame.nsmallest(n, 'media_result'), keep='first'
nsmallest(s, n) == Head_n(SortStable(s, FALSE), n)

\* line 113
best_of(a) == nlargest(SelectSeq(a, LAMBDA r : GEInt(r.media_result, 50)), TopN)

\* line 121
worst_of(a) == nsmallest(SelectSeq(a, LAMBDA r : LTInt(r.media_result, 50)), TopN)

(***************************************************************************)
(* The dashboard below the form (lines 80-152).                            *)
(***************************************************************************)
Calendar == {<<2024, 1, 12>>, <<2024, 2, 29>>, <<2024, 12, 1>>}

NoView == [stage |-> "none"]

NoFilter == [f_esc |-> "Todas", start_d |-> NaT, end_d |-> NaT]

\* line 80: not df.dropna(how="all", subset=["escola","construtor","resultado"]).empty
HasData(rows) ==
  \E i \in 1..Len(rows) :
    ~(rows[i].escola = NULL /\ rows[i].construtor = NULL /\ rows[i].resultado = NoResult)

\* sorted(values) raises TypeError when it has to compare None with a str
SortedRaises(S) == NULL \in S /\ Cardinality(S) >= 2

\* lines 141-144: the options of the selectors of "Evolucao Detalhada"
EscolaOpts(rows) == {rows[i].escola : i \in 1..Len(rows)}
SerieOpts(rows, fe) ==
  {rows[i].serie : i \in {j \in 1..Len(rows) : fe # NULL /\ rows[j].escola = fe}}
ConOpts(rows, fe, fs) ==
  {rows[i].construtor : i \in {j \in 1..Len(rows) :
     fe # NULL /\ fs # NULL /\ rows[j].escola = fe /\ rows[j].serie = fs}}
Pick(S) == IF S = {} THEN {NULL} ELSE S

\* whether the run reaches the filters of the sidebar
ReachesFilters(dfv) == dfv # <<>> /\ HasData(dfv) /\ Dates(dfv) # {}

\* the values the widgets of lines 85-88 can hold
FilterInputs(dfv, lista) ==
  IF ~ReachesFilters(dfv) THEN {NoFilter}
  ELSE {[f_esc |-> x, start_d |-> s, end_d |-> e] :
          <<x, s, e>> \in ({"Todas"} \cup Range(lista))
                           \X {d \in Calendar : DateLE(MinDate(dfv), d) /\ DateLE(d, MaxDate(dfv))}
                           \X {d \in Calendar : DateLE(MinDate(dfv), d) /\ DateLE(d, MaxDate(dfv))}}

\* lines 141-152 with the selectors on fe and fs: how they end
Evolucao(rows, fe, fs) ==
  IF SortedRaises(SerieOpts(rows, fe)) \/ SortedRaises(ConOpts(rows, fe, fs))
  THEN "TypeError" ELSE "run"

\* lines 141-152 on the filtered rows: the ways they can end, over the
\* values the three selectors can hold
PanelHalts(rows) ==
  IF SortedRaises(EscolaOpts(rows)) THEN {"TypeError"}
  ELSE UNION {{Evolucao(rows, fe, fs) : fs \in Pick(SerieOpts(rows, fe))}
                : fe \in Pick(EscolaOpts(rows))}

Kpis(rows, t, f, a) ==
  [total          |-> Len(rows),
   media_geral    |-> Round2(MeanInt(Column(rows, "resultado"))),
   ts             |-> t,
   fl             |-> f,
   media_variacao |-> Round2(MeanFloat(Column(f, "variacao"))),
   avg_s          |-> a,
   best           |-> best_of(a),
   worst          |-> worst_of(a)]

WithTs(rows, t) == Kpis(rows, t, fl_of(t), avg_s_of(rows))

\* lines 96-126 on the filtered rows
Aggregates(rows) == WithTs(rows, ts_of(rows))

\* lines 96-152 on the filtered rows: [halts, cache, view]; "all" says how
\* much of the drawing the model keeps (all of it, or the branch taken alone)
Panel(c, f, all, df_d, df_f) ==
  [halts |-> PanelHalts(df_f),
   cache |-> c,
   view  |-> IF all
             THEN [stage |-> "dashboard", f_esc |-> f.f_esc, start_d |-> f.start_d,
                   end_d |-> f.end_d, df_d |-> df_d, df_f |-> df_f,
                   agg |-> Aggregates(df_f)]
             ELSE [stage |-> "dashboard"]]

Filtered(c, f, all, df_d) == Panel(c, f, all, df_d, BySchool(df_d, f.f_esc))

\* lines 80-152 of one run, on the df of line 42, with the cache c, the table
\* escolas and the widget values f: [halts, cache, view].  halts holds the
\* ways the part can end: "run" when the script goes on to the Cadastro tab,
\* and else what ended the run.
Dashboard(dfv, c, names, f, all) ==
  IF dfv = <<>>
  THEN [halts |-> {"KeyError"}, cache |-> c, view |-> [stage |-> "fault"]]
  ELSE IF ~HasData(dfv)
  THEN [halts |-> {"run"}, cache |-> c, view |-> [stage |-> "nodata"]]
  ELSE IF Dates(dfv) = {}
  THEN [halts |-> {"ValueError"}, cache |-> load_list(c, "escolas", names).cache,
        view |-> [stage |-> "fault"]]
  ELSE IF DateLT(f.end_d, f.start_d)
  THEN [halts |-> {"stop"}, cache |-> load_list(c, "escolas", names).cache,
        view |-> [stage |-> "stopped", start_d |-> f.start_d, end_d |-> f.end_d]]
  ELSE Filtered(load_list(c, "escolas", names).cache, f, all,
                InRange(dfv, f.start_d, f.end_d))

(***************************************************************************)
(* One run of the script.                                                  *)
(***************************************************************************)
\* the form's widget values when no button reads them
W0 == [escola |-> NULL, serie |-> "1o ano", disciplina |-> "Portugues",
       data |-> <<2024, 1, 12>>, new_con |-> NULL, new_res |-> 75, texto |-> ""]

Keys(key, n) == {<<key, i>> : i \in 1..n}

\* lines 67-78, with what the loop of the inserts did
Submitted(w, failAt, dfv, c, buf, sent, btns, loop) ==
  [df         |-> dfv,
   halt       |-> IF loop.raised THEN "raise" ELSE "run",
   relatorios |-> loop.rows,
   entries    |-> IF loop.raised THEN buf ELSE <<>>,
   entry_sent |-> IF loop.raised
                  THEN [i \in 1..Len(buf) |-> IF i <= loop.done THEN sent[i] + 1 ELSE sent[i]]
                  ELSE <<>>,
   cache      |-> IF loop.raised THEN c ELSE EmptyCache,
   buttons    |-> btns,
   submitted  |->
     [pressed |-> TRUE, raised |-> loop.raised, reloads |-> 0,
      form |-> [escola |-> w.escola, serie |-> w.serie,
                disciplina |-> w.disciplina, data |-> w.data],
      buffer |-> buf, before |-> relatorios,
      sent |-> [i \in 1..Len(buf) |-> IF i <= loop.done THEN sent[i] + 1 ELSE sent[i]],
      fate |-> [i \in 1..Len(buf) |->
                  IF i <= loop.done THEN "inserted"
                  ELSE IF i = failAt THEN "raised" ELSE "not attempted"]]]

\* lines 66-78
Submit(btn, w, failAt, dfv, c, buf, sent, btns) ==
  IF btn = "submit_main" /\ buf # <<>>
  THEN Submitted(w, failAt, dfv, c, buf, sent, btns, InsertLoop(relatorios, buf, 1, w, failAt))
  ELSE [df |-> dfv, halt |-> "run", relatorios |-> relatorios,
        entries |-> buf, entry_sent |-> sent, cache |-> c, buttons |-> btns,
        submitted |-> IF submitted.pressed /\ submitted.reloads = 0
                      THEN [submitted EXCEPT !.reloads = 1]
                      ELSE NoSubmit]

\* lines 58-65: the buffer's rows; button idx removes its row and ends the loop
Buffer(btn, idx, w, failAt, dfv, c, buf, sent) ==
  IF btn = "rem_main" /\ idx \in 1..Len(buf)
  THEN Submit(btn, w, failAt, dfv, c, RemoveAt(buf, idx), RemoveAt(sent, idx),
              {<<"reload_main", 0>>, <<"add_main", 0>>, <<"submit_main", 0>>}
                \cup Keys("rem_main", idx))
  ELSE Submit(btn, w, failAt, dfv, c, buf, sent,
              {<<"reload_main", 0>>, <<"add_main", 0>>}
                \cup Keys("rem_main", Len(buf))
                \cup (IF buf # <<>> THEN {<<"submit_main", 0>>} ELSE {}))

\* lines 43-55: the form and the add button
Form(btn, idx, w, failAt, d) ==
  Buffer(btn, idx, w, failAt, d.value,
         load_list(load_list(d.cache, "escolas", escolas).cache,
                   "construtores", construtores).cache,
         IF btn = "add_main"
         THEN Append(entries, [construtor |-> w.new_con, resultado |-> w.new_res])
         ELSE entries,
         IF btn = "add_main" THEN Append(entry_sent, 0) ELSE entry_sent)

\* lines 39-78: the form, the buffer and the submit, with button btn pressed
\* (idx: which rem_main button; failAt: which insert raises, 0 for none) and
\* res what the SELECT of carregar_dados returns if it is sent
MainTab(btn, idx, w, failAt, res) ==
  Form(btn, idx, w, failAt,
       CachedDados(IF btn = "reload_main" THEN EmptyCache ELSE cache, res))

\* one lookup table's part of the tab, with its list l as load_list gave it
LookupOn(names, l, add, del, idx, texto, fails, addBtn, delBtn) ==
  [halt  |-> IF (add \/ del) /\ fails THEN "raise" ELSE "run",
   names |-> IF add /\ ~fails THEN names \cup {texto}
             ELSE IF del /\ ~fails THEN names \ {l.value[idx]}
             ELSE names,
   cache |-> IF (add \/ del) /\ ~fails THEN EmptyCache ELSE l.cache,
   wrote |-> IF (add \/ del) /\ ~fails THEN 1 ELSE 0,
   buttons |-> {<<addBtn, 0>>}
               \cup (IF add /\ fails THEN {}
                     ELSE Keys(delBtn, IF del /\ fails THEN idx ELSE Len(l.value)))]

WithList(names, l, addBtn, delBtn, btn, idx, texto, fails) ==
  LookupOn(names, l, btn = addBtn /\ texto # "", btn = delBtn /\ idx \in 1..Len(l.value),
           idx, texto, fails, addBtn, delBtn)

\* lines 160-173 (table "escolas") and 176-189 (table "construtores"): the
\* list, the add button and the delete buttons of one lookup table; an
\* insert or delete that raises ends the run.  [halt, cache, names, buttons]
Lookup(table, names, c, addBtn, delBtn, btn, idx, texto, fails) ==
  WithList(names, load_list(c, table, names), addBtn, delBtn, btn, idx, texto, fails)

Construtores(e, k) ==
  [halt |-> k.halt, cache |-> k.cache, escolas |-> e.names,
   construtores |-> k.names, buttons |-> e.buttons \cup k.buttons,
   wrote |-> e.wrote + k.wrote]

Escolas(e, btn, idx, texto, fails) ==
  IF e.halt # "run"
  THEN [halt |-> e.halt, cache |-> e.cache, escolas |-> e.names,
        construtores |-> construtores, buttons |-> e.buttons, wrote |-> e.wrote]
  ELSE Construtores(e, Lookup("construtores", construtores, e.cache, "add_con", "del_con",
                              btn, idx, texto, fails))

\* lines 155-189
Cadastro(c, btn, idx, texto, fails) ==
  Escolas(Lookup("escolas", escolas, c, "add_esc", "del_esc", btn, idx, texto, fails),
          btn, idx, texto, fails)

\* what the SELECT of line 31 can return in this run; <<>> when it is not sent
Selects(btn) ==
  IF btn # "reload_main" /\ cache.dados # <<>> THEN {<<>>} ELSE SelectOrdered(relatorios)

\* the state a run leaves: m of the form, v drawn, t of the Cadastro tab
Finish(m, v, t) ==
  /\ relatorios' = m.relatorios
  /\ entries' = m.entries
  /\ entry_sent' = m.entry_sent
  /\ lookup_writes' = lookup_writes + t.wrote
  /\ submitted' = m.submitted
  /\ df' = m.df
  /\ view' = v
  /\ escolas' = t.escolas
  /\ construtores' = t.construtores
  /\ cache' = t.cache
  /\ buttons' = m.buttons \cup t.buttons
  /\ outcome' = IF t.halt = "run" THEN "done" ELSE t.halt

Halted(halt, c) ==
  [halt |-> halt, cache |-> c, escolas |-> escolas, construtores |-> construtores,
   buttons |-> {}, wrote |-> 0]

Tabs(btn, idx, w, failAt, m, b, halt) ==
  Finish(m, b.view,
         IF halt = "run" THEN Cadastro(b.cache, btn, idx, w.texto, failAt # 0)
         ELSE Halted(halt, b.cache))

Below(btn, idx, w, failAt, all, m) ==
  IF m.halt # "run" THEN Finish(m, NoView, Halted(m.halt, m.cache))
  ELSE \E b \in {Dashboard(m.df, m.cache, escolas, f, all) :
                   f \in FilterInputs(m.df, load_list(m.cache, "escolas", escolas).value)} :
         \E halt \in b.halts : Tabs(btn, idx, w, failAt, m, b, halt)

\* The whole run, top to bottom, with button btn pressed and the inputs it
\* reads; "all" says how much of the drawing the model keeps.
Press(btn, idx, w, failAt, all) ==
  \E res \in Selects(btn) : Below(btn, idx, w, failAt, all, MainTab(btn, idx, w, failAt, res))

\* the first run of a session, and a run a widget other than a button starts
Rerun == Press("none", 0, W0, 0, FALSE)

\* line 39
ReloadMain == <<"reload_main", 0>> \in buttons /\ Press("reload_main", 0, W0, 0, FALSE)

\* the selectbox values of lines 47 and 52 in a run that does not reload
EscolaOptions == Options(load_list(cache, "escolas", escolas).value)
ConstrutorOptions == Options(load_list(cache, "construtores", construtores).value)

\* line 54
AddMain ==
  /\ <<"add_main", 0>> \in buttons
  /\ Len(entries) < MaxEntries
  /\ \E con \in ConstrutorOptions, r \in Results :
       Press("add_main", 0, [W0 EXCEPT !.new_con = con, !.new_res = r], 0, FALSE)

\* line 63
RemMain ==
  \E idx \in 1..Len(entries) :
    <<"rem_main", idx>> \in buttons /\ Press("rem_main", idx, W0, 0, FALSE)

\* line 66
SubmitMain ==
  /\ <<"submit_main", 0>> \in buttons /\ entries # <<>>
  /\ \E e \in EscolaOptions, s \in Series, d \in Disciplinas, dt \in FormDates,
        failAt \in 0..Len(entries) :
       /\ Len(relatorios) + (IF failAt = 0 THEN Len(entries) ELSE failAt - 1) <= MaxRecords
       /\ Press("submit_main", 0,
                [W0 EXCEPT !.escola = e, !.serie = s, !.disciplina = d, !.data = dt],
                failAt, FALSE)

\* line 163
AddEsc ==
  /\ <<"add_esc", 0>> \in buttons /\ lookup_writes < MaxLookupWrites
  /\ \E texto \in SchoolNames \cup {""}, fails \in {0, 1} :
       Press("add_esc", 0, [W0 EXCEPT !.texto = texto], fails, FALSE)

\* line 170
DelEsc ==
  \E idx \in 1..Cardinality(SchoolNames), fails \in {0, 1} :
    <<"del_esc", idx>> \in buttons /\ lookup_writes < MaxLookupWrites /\ Press("del_esc", idx, W0, fails, FALSE)

\* line 179
AddCon ==
  /\ <<"add_con", 0>> \in buttons /\ lookup_writes < MaxLookupWrites
  /\ \E texto \in ConNames \cup {""}, fails \in {0, 1} :
       Press("add_con", 0, [W0 EXCEPT !.texto = texto], fails, FALSE)

\* line 186
DelCon ==
  \E idx \in 1..Cardinality(ConNames), fails \in {0, 1} :
    <<"del_con", idx>> \in buttons /\ lookup_writes < MaxLookupWrites /\ Press("del_con", idx, W0, fails, FALSE)

Init ==
  /\ relatorios \in InitTables
  /\ escolas = SchoolNames
  /\ construtores = ConNames
  /\ cache = EmptyCache
  /\ entries = <<>>
  /\ df = <<>>
  /\ outcome = "start"
  /\ view = NoView
  /\ buttons = {}
  /\ submitted = NoSubmit
  /\ entry_sent = <<>>
  /\ lookup_writes = 0

Next ==
  \/ Rerun
  \/ ReloadMain
  \/ AddMain
  \/ RemMain
  \/ SubmitMain
  \/ AddEsc
  \/ DelEsc
  \/ AddCon
  \/ DelCon

Spec == Init /\ [][Next]_vars

(***************************************************************************)
(* The dashboard as a function of the table: the session has loaded a      *)
(* table and the user moves the filters of the sidebar.                    *)
(***************************************************************************)
MaxDashRows == 3     \* rows of relatorios_bncc under the dashboard

DashSchools == {"A", "B"}

\* the rows a table may hold, by date, then school, then result
DashKinds ==
  [i \in 1..12 |->
     [id |-> 0, escola |-> <<"A", "B">>[(((i - 1) \div 2) % 2) + 1], serie |-> "1o ano",
      disciplina |-> "Portugues",
      data |-> isoformat(SortDates(Calendar)[((i - 1) \div 4) + 1]),
      resultado |-> <<0, 60>>[((i - 1) % 2) + 1], construtor |-> "K"]]

\* tables whose rows were inserted in that order
DashTables ==
  UNION {{[k \in 1..n |-> [DashKinds[q[k]] EXCEPT !.id = k]] :
            q \in {p \in [1..n -> 1..12] : \A i \in 1..n : i < n => p[i] <= p[i + 1]}}
           : n \in 0..MaxDashRows}

\* the state a run leaves that found this table and these schools
Loaded(rows, names) ==
  /\ relatorios = rows
  /\ escolas = names
  /\ construtores = ConNames
  /\ cache = [dados |-> <<carregar_dados(rows)>>, escolas |-> <<SortNames(names)>>,
              construtores |-> <<SortNames(ConNames)>>]
  /\ entries = <<>>
  /\ df = carregar_dados(rows)
  /\ outcome = "start"
  /\ view = NoView
  /\ buttons = {}
  /\ submitted = NoSubmit
  /\ entry_sent = <<>>
  /\ lookup_writes = 0

InitDash == \E rows \in DashTables : Loaded(rows, DashSchools)

\* a run a widget of the sidebar starts, with all it draws
Draw == Press("none", 0, W0, 0, TRUE)

SpecDash == InitDash /\ [][Draw]_vars

(***************************************************************************)
(* The rankings over many schools: one row per school, the same day.       *)
(***************************************************************************)
MaxFree  == 1        \* leading schools with any result
MaxBlock == 11       \* following schools that share one result
MaxTail  == 1        \* trailing schools with any result

RankResults == {20, 40, 60, 80}

SeqsUpTo(S, n) == UNION {[1..k -> S] : k \in 0..n}

RankColumns ==
  {a \o [i \in 1..k |-> v] \o b :
     <<a, k, v, b>> \in SeqsUpTo(RankResults, MaxFree) \X (0..MaxBlock)
                         \X RankResults \X SeqsUpTo(RankResults, MaxTail)}

\* the school names from "E01" on
RankName(i) == NameOrder[i + 2]

RankTable(col) ==
  [i \in 1..Len(col) |->
     [id |-> i, escola |-> RankName(i), serie |-> "1o ano", disciplina |-> "Portugues",
      data |-> isoformat(<<2024, 1, 12>>), resultado |-> col[i], construtor |-> "K"]]

InitRank == \E col \in RankColumns : Loaded(RankTable(col), {})

SpecRank == InitRank /\ [][Draw]_vars

(***************************************************************************)
(* The properties.                                                         *)
(***************************************************************************)
\* the last run was a press of submit_main
JustSubmitted == submitted.pressed /\ submitted.reloads = 0

\* the last run was the first one after a press of submit_main
LoadedAfterSubmit == submitted.pressed /\ submitted.reloads = 1

\* C1: whatever st.cache_data holds is what the store would return now: no
\* write, a partly failed batch submit included, leaves a memoized result
\* behind for the next run to read.
C1_CacheFresh ==
  /\ cache.dados # <<>> =>
       cache.dados[1] \in {carregar_dados(r) : r \in SelectOrdered(relatorios)}
  /\ cache.escolas # <<>> => cache.escolas[1] = SortNames(escolas)
  /\ cache.construtores # <<>> => cache.construtores[1] = SortNames(construtores)

\* C2: a batch submit attempts every buffered entry: none is left without an
\* attempt because the insert of another one failed, and the run reports
\* per entry instead of ending in the exception.
C2_BatchNotAborted ==
  JustSubmitted =>
    /\ \A i \in 1..Len(submitted.buffer) : submitted.fate[i] # "not attempted"
    /\ outcome # "raise"

\* a row without the id the store gave it
Strip(r) ==
  [escola |-> r.escola, serie |-> r.serie, disciplina |-> r.disciplina,
   data |-> r.data, resultado |-> r.resultado, construtor |-> r.construtor]

Count(rows, x) == Cardinality({i \in 1..Len(rows) : Strip(rows[i]) = x})

\* the records a submit s is to add, as a load shows them
Expected(s) ==
  [i \in 1..Len(s.buffer) |->
     [id |-> 0, escola |-> s.form.escola, serie |-> s.form.serie,
      disciplina |-> s.form.disciplina, data |-> s.form.data,
      resultado |-> s.buffer[i].resultado, construtor |-> s.buffer[i].construtor]]

\* C3: round trip: the first load after a batch submit whose inserts all
\* succeeded holds the records the store had, unchanged, and for each
\* buffered entry exactly one more record, with the form's school, grade,
\* subject and date and the entry's constructor and result.
C3_RoundTrip ==
  (LoadedAfterSubmit /\ ~submitted.raised) =>
    LET old == carregar_dados(submitted.before)
        new == Expected(submitted)
    IN /\ Len(df) = Len(old) + Len(new)
       /\ \A i \in 1..Len(old) : old[i] \in Range(df)
       /\ \A x \in {Strip(r) : r \in Range(df) \cup Range(old) \cup Range(new)} :
            Count(df, x) = Count(old, x) + Count(new, x)

\* an entry was submitted on 29 February into a table that held a record,
\* and the table was loaded
C3_Witness ==
  /\ LoadedAfterSubmit /\ ~submitted.raised
  /\ Len(submitted.buffer) = 1
  /\ submitted.form.data = <<2024, 2, 29>>
  /\ Len(submitted.before) = 1
  /\ Len(df) = 2

\* C4: a range with start > end stops the run with nothing filtered and
\* nothing aggregated; otherwise the rows kept by the date filter are exactly
\* those with start <= data <= end, and the filtered set is those of them of
\* the chosen school.
C4_DateRange ==
  /\ view.stage = "stopped" =>
       /\ outcome = "stop"
       /\ DateLT(view.end_d, view.start_d)
       /\ DOMAIN view = {"stage", "start_d", "end_d"}
  /\ view.stage = "dashboard" =>
       /\ ~DateLT(view.end_d, view.start_d)
       /\ Len(view.df_d) = Cardinality(Range(view.df_d))
       /\ \A i \in 1..Len(df) :
            df[i] \in Range(view.df_d) <=>
              (DateLE(view.start_d, df[i].data) /\ DateLE(df[i].data, view.end_d))
       /\ Range(view.df_d) \subseteq Range(df)
       /\ Len(view.df_f) = Cardinality(Range(view.df_f))
       /\ Range(view.df_f) =
            {r \in Range(view.df_d) : view.f_esc = "Todas" \/ r.escola = view.f_esc}

\* a range whose two ends are days of records, with a record outside it
C4_Witness ==
  /\ view.stage = "dashboard"
  /\ view.start_d # view.end_d
  /\ \E r \in Range(view.df_d) : r.data = view.start_d
  /\ \E r \in Range(view.df_d) : r.data = view.end_d
  /\ Len(view.df_d) < Len(df)

\* C5: a run that finds no data (an empty table, or rows whose escola,
\* construtor and resultado are all null) draws the no-data message and
\* ends without a fault.
C5_NoDataBranch ==
  (outcome # "start" /\ view # NoView /\ ~HasData(df)) =>
    /\ view.stage = "nodata"
    /\ outcome \notin {"KeyError", "ValueError", "TypeError"}

\* C6: a school whose first mean is 0 has an absent variation, and the mean
\* variation is the mean over the other schools.
C6_ZeroFirstAbsent ==
  view.stage = "dashboard" =>
    /\ \A k \in 1..Len(view.agg.fl) :
         view.agg.fl[k].primeiro = Frac(0, 1) => view.agg.fl[k].variacao = NaN
    /\ view.agg.media_variacao =
         Round2(MeanFloat(Column(SelectSeq(view.agg.fl, LAMBDA r : r.primeiro # Frac(0, 1)),
                                 "variacao")))

RowsOf(rows, e) == {i \in 1..Len(rows) : rows[i].escola = e}
DatesOf(rows, e) == {rows[i].data : i \in RowsOf(rows, e)}
OnDate(rows, e, d) == {i \in RowsOf(rows, e) : rows[i].data = d}
Earliest(S) == CHOOSE d \in S : \A x \in S : DateLE(d, x)
Latest(S) == CHOOSE d \in S : \A x \in S : DateLE(x, d)

RECURSIVE SumResults(_, _)
SumResults(rows, I) ==
  IF I = {} THEN 0
  ELSE LET i == CHOOSE x \in I : TRUE IN rows[i].resultado + SumResults(rows, I \ {i})

\* x is the mean of resultado over the rows I
IsMeanOf(x, rows, I) == IsNum(x) /\ x.num * Cardinality(I) = x.den * SumResults(rows, I)

\* C7: the variation table has one row for each school with two or more
\* distinct dates among the filtered records and none for any other; its
\* first and last are the means of the school's earliest and latest date; a
\* school with one date is still in the means per school.
C7_VariationSchools ==
  view.stage = "dashboard" =>
    \A e \in DashSchools :
      /\ Cardinality({k \in 1..Len(view.agg.fl) : view.agg.fl[k].escola = e})
           = IF Cardinality(DatesOf(view.df_f, e)) >= 2 THEN 1 ELSE 0
      /\ \A k \in 1..Len(view.agg.fl) :
           view.agg.fl[k].escola = e =>
             /\ IsMeanOf(view.agg.fl[k].primeiro, view.df_f,
                         OnDate(view.df_f, e, Earliest(DatesOf(view.df_f, e))))
             /\ IsMeanOf(view.agg.fl[k].ultimo, view.df_f,
                         OnDate(view.df_f, e, Latest(DatesOf(view.df_f, e))))
      /\ Cardinality(DatesOf(view.df_f, e)) = 1 =>
           \E k \in 1..Len(view.agg.avg_s) :
             /\ view.agg.avg_s[k].escola = e
             /\ IsMeanOf(view.agg.avg_s[k].media_result, view.df_f, RowsOf(view.df_f, e))

\* a school with two dates and unequal first and last means beside a school
\* with one date
C7_Witness ==
  /\ view.stage = "dashboard"
  /\ \E e \in DashSchools : Cardinality(DatesOf(view.df_f, e)) = 1
  /\ \E k \in 1..Len(view.agg.fl) :
       view.agg.fl[k].count = 2 /\ view.agg.fl[k].primeiro # view.agg.fl[k].ultimo

SameMean(a, b) == ~GT(a.media_result, b.media_result) /\ ~LT(a.media_result, b.media_result)

\* the place of the row r in a
Pos(a, r) == CHOOSE i \in 1..Len(a) : a[i] = r

\* list ranks the rows cand of a: the TopN first of them in the order desc
\* (descending) or ascending, rows of equal mean in their order in a
Ranked(list, a, cand, desc) ==
  /\ Len(list) <= TopN
  /\ Len(list) = IF Cardinality(cand) < TopN THEN Cardinality(cand) ELSE TopN
  /\ \A k \in 1..Len(list) : \E i \in cand : a[i] = list[k]
  /\ \A k, l \in 1..Len(list) :
       k < l =>
         /\ list[k].escola # list[l].escola
         /\ IF desc THEN ~LT(list[k].media_result, list[l].media_result)
                    ELSE ~GT(list[k].media_result, list[l].media_result)
         /\ SameMean(list[k], list[l]) => Pos(a, list[k]) < Pos(a, list[l])
  /\ \A i \in cand :
       a[i] \notin Range(list) =>
         \A k \in 1..Len(list) :
           /\ IF desc THEN ~GT(a[i].media_result, list[k].media_result)
                      ELSE ~LT(a[i].media_result, list[k].media_result)
           /\ SameMean(a[i], list[k]) => Pos(a, list[k]) < i

\* C8: the two top-10 lists: at most 10 schools each, of mean >= 50 in
\* non-increasing order and of mean < 50 in non-decreasing order, no left-out
\* school ranking before a listed one, equal means in input order, and no
\* school in both.
C8_TopLists ==
  view.stage = "dashboard" =>
    /\ Ranked(view.agg.best, view.agg.avg_s,
              {i \in 1..Len(view.agg.avg_s) : GEInt(view.agg.avg_s[i].media_result, 50)}, TRUE)
    /\ Ranked(view.agg.worst, view.agg.avg_s,
              {i \in 1..Len(view.agg.avg_s) : LTInt(view.agg.avg_s[i].media_result, 50)}, FALSE)
    /\ \A k \in 1..Len(view.agg.best) :
         GEInt(view.agg.best[k].media_result, 50)
    /\ \A k \in 1..Len(view.agg.worst) :
         LTInt(view.agg.worst[k].media_result, 50)
    /\ {r.escola : r \in Range(view.agg.best)} \cap {r.escola : r \in Range(view.agg.worst)} = {}

\* more than 10 schools of mean >= 50, the 10th listed one tied with one
\* left out and below the first, and a school in the other list
C8_Witness ==
  /\ view.stage = "dashboard"
  /\ Len(view.agg.best) = TopN
  /\ GT(view.agg.best[1].media_result, view.agg.best[TopN].media_result)
  /\ \E r \in Range(view.agg.avg_s) :
       r \notin Range(view.agg.best) /\ SameMean(r, view.agg.best[TopN])
  /\ view.agg.worst # <<>>

\* C9: after a press of submit_main the buffer is empty, whether an insert
\* failed or not.
C9_BufferCleared == JustSubmitted => entries = <<>>

\* C10: no buffered entry is inserted into relatorios_bncc more than once.
C10_InsertedOnce ==
  /\ \A i \in 1..Len(entry_sent) : entry_sent[i] <= 1
  /\ submitted.pressed => \A i \in 1..Len(submitted.sent) : submitted.sent[i] <= 1
=============================================================================
